---- MODULE Spec2Model ----
(***************************************************************************)
(* Model of the task definition and validation core of yoot:               *)
(*   src/src/yoot/task.py        TaskDefinition.validate,                  *)
(*                               ValidatedTaskDefinition.validate_outputs, *)
(*                               ValidatedTaskSchema.from_unvalidated,     *)
(*                               TaskDefinition._validate_schema           *)
(*   src/src/yoot/experiment.py  ExperimentSchema.validate                 *)
(*                                                                         *)
(* Python values are represented as follows.                               *)
(*   None / Optional[T]   <<>> is None, <<v>> is the value v               *)
(*   dict                 a sequence of <<key, value>> pairs in insertion  *)
(*                        order, keys distinct                             *)
(*   str (func only)      a sequence of one-character strings              *)
(*   raise E(msg)         [kind |-> "error", type |-> E, msg |-> ...]      *)
(***************************************************************************)
EXTENDS Integers, Sequences, FiniteSets, TLC

VARIABLES
    defn,        \* the TaskDefinition (self of validate)
    task,        \* the Task bound to it
    result,      \* Optional outcome of the latest validate call
    calls,       \* number of validate calls made on the pair
    parsed,      \* whether the latest validate call ran param_schema.parse_obj
    actual,      \* Optional result mapping given to the latest validate_outputs call
    outResult,   \* Optional outcome of that call
    schema,      \* the TaskSchema handed to the function resolver
    fileExists,  \* the file part of schema.func names an existing file
    exportsSymbol, \* that file defines the symbol part of schema.func
    utilLoaded,  \* importlib.util is already an attribute of importlib
    fromResult,  \* Optional outcome of from_unvalidated(schema)
    schemaResult,\* Optional outcome of _validate_schema(schema)
    exp,         \* the ExperimentSchema.tasks dict
    expResult    \* Optional outcome of ExperimentSchema.validate

vars == <<defn, task, result, calls, parsed, actual, outResult, schema, fileExists,
          exportsSymbol, utilLoaded, fromResult, schemaResult, exp, expResult>>

taskVars == <<defn, task, result, calls, parsed, actual, outResult>>
resolverVars == <<schema, fileExists, exportsSymbol, utilLoaded, fromResult, schemaResult>>
expVars == <<exp, expResult>>

----------------------------------------------------------------------------
(* Bounds *)

MaxCalls == 2
MaxLen == 3
MaxTasks == 2

InputNames == {"x", "y"}
OutputNames == {"a", "b"}
ParamKeys == {"p"}
RawValues == {"1", "s"}
FuncChars == {"a", "b", ":"}
TaskNames == <<"t1", "t2", "t3">>

----------------------------------------------------------------------------
(* Python values *)

None == <<>>

Some(v) == <<v>>

\* an exception message: its fixed text, the task it names and the names it lists
Msg(text, subject, names) == [text |-> text, task |-> subject, names |-> names]

Raise(type, msg) == [kind |-> "error", type |-> type, msg |-> msg, value |-> None]

Return(v) == [kind |-> "ok", type |-> "", msg |-> Msg("", "", {}), value |-> Some(v)]

Keys(d) == {d[i][1] : i \in DOMAIN d}

Get(d, k) == d[CHOOSE i \in DOMAIN d : d[i][1] = k][2]

\* bool(x) of an Optional[dict]: None and the empty dict are falsy
Truthy(opt) == opt /= None /\ Len(opt[1]) > 0

\* all dicts over the keys ks with values in vs, in every insertion order
Dicts(ks, vs) ==
    {d \in UNION {[1..n -> ks \X vs] : n \in 0..Cardinality(ks)} :
        \A i, j \in DOMAIN d : i /= j => d[i][1] /= d[j][1]}

Optional(S) == {None} \cup {Some(v) : v \in S}

----------------------------------------------------------------------------
(* pydantic: param_schema.parse_obj.  A param_schema is a BaseModel subclass *)
(* whose fields are all required ints; it is represented by its field names.*)
(* In pydantic's lax mode the str "1" is converted to the int 1, the str    *)
(* "s" is not an int; keys that are not fields are ignored.                 *)

IntStrings == {"1"}

ToInt(s) == CASE s = "1" -> 1

parse_obj(param_schema, raw) ==
    IF \A f \in param_schema.fields : f \in Keys(raw) /\ Get(raw, f) \in IntStrings
    THEN Return([f \in param_schema.fields |-> ToInt(Get(raw, f))])
    ELSE Raise("ValidationError", Msg("validation error", "", {}))

----------------------------------------------------------------------------
(* TaskDefinition.validate *)

\* "tracker" not in arg_names
MissingTracker(arg_names) == "tracker" \notin arg_names

\* a variant without the first symmetry check
AcceptsNoParams_never(self, t) == FALSE

\* self.params and task.param_schema is None
AcceptsNoParams(self, t) == Truthy(self.params) /\ t.param_schema = None

\* a variant without the second symmetry check
RequiresParams_never(self, t) == FALSE

\* self.params is None and task.param_schema
RequiresParams(self, t) == self.params = None /\ t.param_schema /= None

\* self.params and task.param_schema
BothDeclareParams(self, t) == Truthy(self.params) /\ t.param_schema /= None

\* a variant that accepts a callable taking only some of the declared inputs
InputsMismatch_subset(arg_names, inputs) == ~(arg_names \subseteq inputs)

\* arg_names != set(self.inputs)
InputsMismatch(arg_names, inputs) == arg_names /= inputs

\* the value validate returns or the exception it raises, and whether it
\* called parse_obj on the way
validate_return(self, t) ==
    LET signature == t.parameters
        arg_names == signature \ {"tracker"}
        remaining == arg_names \ {"params"}
        attempt == IF BothDeclareParams(self, t)
                   THEN parse_obj(t.param_schema[1], self.params[1])
                   ELSE Return(None)
        params == IF BothDeclareParams(self, t) THEN attempt.value ELSE None
    IN  IF MissingTracker(signature)
        THEN [ret |-> Raise("TaskDefinitionError",
                            Msg("is missing the 'tracker' parameter", t.name, {})),
              parsed |-> FALSE]
        ELSE IF AcceptsNoParams(self, t)
        THEN [ret |-> Raise("TaskDefinitionError",
                            Msg("does not accept parameters but Task definition defines them",
                                t.name, {})),
              parsed |-> FALSE]
        ELSE IF RequiresParams(self, t)
        THEN [ret |-> Raise("TaskDefinitionError",
                            Msg("requires parameters but Task definition does not define them",
                                t.name, {})),
              parsed |-> FALSE]
        ELSE IF attempt.kind = "error"
        THEN [ret |-> Raise("TaskDefinitionError",
                            Msg("parameters are invalid", t.name, {})),
              parsed |-> TRUE]
        ELSE IF InputsMismatch(remaining, self.inputs)
        THEN [ret |-> Raise("TaskDefinitionError",
                            Msg("inputs do not match the Task definition", t.name, {})),
              parsed |-> BothDeclareParams(self, t)]
        ELSE [ret |-> Return([name |-> self.name, params |-> params,
                              inputs |-> self.inputs, outputs |-> self.outputs]),
              parsed |-> BothDeclareParams(self, t)]

\* a variant whose working set aliases the callable's own parameter names, so
\* that the remove/discard calls reach the Task
validate_aliasing(self, t) ==
    validate_return(self, t) @@
    [self |-> self, task |-> [t EXCEPT !.parameters = @ \ {"tracker", "params"}]]

\* one call of validate: its outcome and the objects as the call leaves them.
\* arg_names is a fresh set, so self and task come back as they went in.
validate(self, t) ==
    validate_return(self, t) @@ [self |-> self, task |-> t]

----------------------------------------------------------------------------
(* ValidatedTaskDefinition.validate_outputs *)

\* a variant that tolerates undeclared keys
validate_outputs_lenient(self, outputs) ==
    LET missing_outputs == self.outputs \ Keys(outputs)
    IN  IF missing_outputs /= {}
        THEN Raise("TaskDefinitionError",
                   Msg("Task is missing expected outputs", "", missing_outputs))
        ELSE Return(None)

\* a variant that looks for undeclared keys first
validate_outputs_extra_first(self, outputs) ==
    LET actual_outputs_set == Keys(outputs)
        missing_outputs == self.outputs \ actual_outputs_set
        extra_outputs == actual_outputs_set \ self.outputs
    IN  IF extra_outputs /= {}
        THEN Raise("TaskDefinitionError",
                   Msg("Task has unexpected outputs", "", extra_outputs))
        ELSE IF missing_outputs /= {}
        THEN Raise("TaskDefinitionError",
                   Msg("Task is missing expected outputs", "", missing_outputs))
        ELSE Return(None)

validate_outputs(self, outputs) ==
    LET actual_outputs_set == Keys(outputs)
        missing_outputs == self.outputs \ actual_outputs_set
        extra_outputs == actual_outputs_set \ self.outputs
    IN  IF missing_outputs /= {}
        THEN Raise("TaskDefinitionError",
                   Msg("Task is missing expected outputs", "", missing_outputs))
        ELSE IF extra_outputs /= {}
        THEN Raise("TaskDefinitionError",
                   Msg("Task has unexpected outputs", "", extra_outputs))
        ELSE Return(None)

----------------------------------------------------------------------------
(* The task specification: a (TaskDefinition, Task) pair is validated,      *)
(* possibly repeatedly, and the results of running the validated task are   *)
(* checked against the ValidatedTaskDefinition.                             *)

Signatures == SUBSET ({"tracker", "params"} \cup InputNames)

ParamSchemas == {[fields |-> fs] : fs \in SUBSET ParamKeys}

TaskDefinitions ==
    [name : {"t1"}, inputs : SUBSET InputNames, outputs : SUBSET OutputNames,
     params : Optional(Dicts(ParamKeys, RawValues))]

Tasks == [name : {"t1"}, parameters : Signatures, param_schema : Optional(ParamSchemas)]

NoTaskDefinition == [name |-> "", inputs |-> {}, outputs |-> {}, params |-> None]

NoTask == [name |-> "", parameters |-> {}, param_schema |-> None]

NoTaskSchema == [func |-> <<>>, inputs |-> {}, outputs |-> {}, params |-> None]

InitTaskIdle ==
    /\ defn = NoTaskDefinition
    /\ task = NoTask
    /\ result = None
    /\ calls = 0
    /\ parsed = FALSE
    /\ actual = None
    /\ outResult = None

InitResolverIdle ==
    /\ schema = NoTaskSchema
    /\ fileExists = FALSE
    /\ exportsSymbol = FALSE
    /\ utilLoaded = FALSE
    /\ fromResult = None
    /\ schemaResult = None

InitExpIdle ==
    /\ exp = <<>>
    /\ expResult = None

InitTask ==
    /\ defn \in TaskDefinitions
    /\ task \in Tasks
    /\ result = None
    /\ calls = 0
    /\ parsed = FALSE
    /\ actual = None
    /\ outResult = None
    /\ InitResolverIdle
    /\ InitExpIdle

Validate ==
    /\ calls < MaxCalls
    /\ LET out == validate(defn, task)
       IN  /\ result' = Some(out.ret)
           /\ parsed' = out.parsed
           /\ defn' = out.self
           /\ task' = out.task
    /\ calls' = calls + 1
    /\ UNCHANGED <<actual, outResult, resolverVars, expVars>>

\* the ValidatedTaskDefinition the latest validate call returned
Validated == result[1].value[1]

ValidateOutputs(outputs) ==
    /\ result /= None
    /\ result[1].kind = "ok"
    /\ actual' = Some(outputs)
    /\ outResult' = Some(validate_outputs(Validated, outputs))
    /\ UNCHANGED <<defn, task, result, calls, parsed, resolverVars, expVars>>

NextTask ==
    \/ Validate
    \/ \E outputs \in Dicts(OutputNames, {"1"}) : ValidateOutputs(outputs)

SpecTask == InitTask /\ [][NextTask]_vars

----------------------------------------------------------------------------
(* Function-reference resolution *)

\* str.split(":")
RECURSIVE Split(_)
Split(s) ==
    IF \A i \in DOMAIN s : s[i] /= ":"
    THEN <<s>>
    ELSE LET i == CHOOSE k \in DOMAIN s : s[k] = ":" /\ \A j \in 1..(k - 1) : s[j] /= ":"
         IN  <<SubSeq(s, 1, i - 1)>> \o Split(SubSeq(s, i + 1, Len(s)))

\* a variant that only asks for at least two components
InvalidFunctionDefinition_atleast(split_func) == Len(split_func) < 2

\* len(split_func) != 2
InvalidFunctionDefinition(split_func) == Len(split_func) /= 2

\* pathlib.Path(file): the empty string is the current directory
Path(file) == IF file = <<>> THEN <<".">> ELSE file

\* pydantic FilePath: the path must exist and be a file; "." is a directory
IsFile(path) == path /= <<".">> /\ fileExists

\* schema.model_dump()
model_dump(s) ==
    [inputs |-> s.inputs, outputs |-> s.outputs, params |-> s.params, func |-> s.func]

\* ValidatedTaskSchema(**kwargs): file and name are required, inputs, outputs
\* and params come from TaskMetadata, unknown keywords are ignored
ValidatedTaskSchema(kwargs) ==
    IF {"file", "name"} \subseteq DOMAIN kwargs /\ IsFile(kwargs.file)
    THEN Return([inputs |-> kwargs.inputs, outputs |-> kwargs.outputs,
                 params |-> kwargs.params, file |-> kwargs.file, name |-> kwargs.name])
    ELSE Raise("ValidationError", Msg("validation error", "", {}))

from_unvalidated(s) ==
    LET split_func == Split(s.func)
    IN  IF InvalidFunctionDefinition(split_func)
        THEN Raise("TaskDefinitionError", Msg("Invalid function definition", "", {}))
        ELSE LET file == split_func[1]
                 func_name == split_func[2]
                 made == ValidatedTaskSchema(
                             [file |-> Path(file), func_name |-> func_name] @@ model_dump(s))
             IN  IF made.kind = "error"
                 THEN Raise("TaskDefinitionError", Msg("Invalid task schema.", "", {}))
                 ELSE made

\* After the split, line 76 evaluates importlib.util, which the module never
\* imports, and then the name file_path, which is not defined anywhere; the
\* load in lines 77-80 is never reached.
validate_schema(s) ==
    LET split_func == Split(s.func)
    IN  IF InvalidFunctionDefinition(split_func)
        THEN Raise("TaskDefinitionError", Msg("Invalid function definition", "", {}))
        ELSE IF ~utilLoaded
        THEN Raise("AttributeError", Msg("module 'importlib' has no attribute 'util'", "", {}))
        ELSE Raise("NameError", Msg("name 'file_path' is not defined", "", {}))

Strings == UNION {[1..n -> FuncChars] : n \in 0..MaxLen}

TaskSchemas ==
    [func : Strings, inputs : SUBSET {"x"}, outputs : {{"a"}}, params : {None}]

InitResolver ==
    /\ schema \in TaskSchemas
    /\ fileExists \in BOOLEAN
    /\ exportsSymbol \in BOOLEAN
    /\ utilLoaded \in BOOLEAN
    /\ fromResult = None
    /\ schemaResult = None
    /\ InitTaskIdle
    /\ InitExpIdle

FromUnvalidated ==
    /\ fromResult' = Some(from_unvalidated(schema))
    /\ UNCHANGED <<schema, fileExists, exportsSymbol, utilLoaded, schemaResult,
                   taskVars, expVars>>

ValidateSchema ==
    /\ schemaResult' = Some(validate_schema(schema))
    /\ UNCHANGED <<schema, fileExists, exportsSymbol, utilLoaded, fromResult,
                   taskVars, expVars>>

NextResolver == FromUnvalidated \/ ValidateSchema

SpecResolver == InitResolver /\ [][NextResolver]_vars

----------------------------------------------------------------------------
(* ExperimentSchema.validate.  tasks is a dict from task name to TaskSchema. *)

\* a variant that does not look at outputs
validate_task_no_outputs(name, t) ==
    IF t.inputs = {}
    THEN Raise("ValueError", Msg("has no inputs.", name, {}))
    ELSE IF Truthy(t.params) /\ Keys(t.params[1]) \ t.inputs /= {}
    THEN LET d == t.params[1]
             i == CHOOSE k \in DOMAIN d :
                      d[k][1] \notin t.inputs /\ \A j \in 1..(k - 1) : d[j][1] \in t.inputs
         IN  Raise("ValueError", Msg("has a parameter that is not an input.", name, {d[i][1]}))
    ELSE Return(None)

\* the body of the loop for one entry: the three checks in order; the
\* parameters are visited in the dict's insertion order
validate_task(name, t) ==
    IF t.inputs = {}
    THEN Raise("ValueError", Msg("has no inputs.", name, {}))
    ELSE IF t.outputs = {}
    THEN Raise("ValueError", Msg("has no outputs.", name, {}))
    ELSE IF Truthy(t.params) /\ Keys(t.params[1]) \ t.inputs /= {}
    THEN LET d == t.params[1]
             i == CHOOSE k \in DOMAIN d :
                      d[k][1] \notin t.inputs /\ \A j \in 1..(k - 1) : d[j][1] \in t.inputs
         IN  Raise("ValueError", Msg("has a parameter that is not an input.", name, {d[i][1]}))
    ELSE Return(None)

\* the loop over self.tasks.items() from entry i on
RECURSIVE validate_from(_, _)
validate_from(tasks, i) ==
    IF i > Len(tasks)
    THEN Return(None)
    ELSE LET r == validate_task(tasks[i][1], tasks[i][2])
         IN  IF r.kind = "error" THEN r ELSE validate_from(tasks, i + 1)

experiment_validate(tasks) == validate_from(tasks, 1)

ExpTaskSchemas ==
    [func : {<<"a", ":", "b">>}, inputs : SUBSET InputNames, outputs : SUBSET {"a"},
     params : Optional(Dicts(InputNames, {"1"}))]

\* the dict whose i-th entry maps the i-th task name to ts[i]
Experiment(ts) == [i \in DOMAIN ts |-> <<TaskNames[i], ts[i]>>]

InitExp ==
    /\ \E n \in 0..MaxTasks : \E ts \in [1..n -> ExpTaskSchemas] : exp = Experiment(ts)
    /\ expResult = None
    /\ InitTaskIdle
    /\ InitResolverIdle

ExperimentValidate ==
    /\ expResult' = Some(experiment_validate(exp))
    /\ UNCHANGED <<exp, taskVars, resolverVars>>

NextExp == ExperimentValidate

SpecExperiment == InitExp /\ [][NextExp]_vars

----------------------------------------------------------------------------
(* Properties of TaskDefinition.validate *)

\* the latest outcome of validate
Res == result[1]

\* the callable's formal parameter names minus the tracker and parameter slots
Remaining == task.parameters \ {"tracker", "params"}

TrackerViolated == "tracker" \notin task.parameters

SymmetryViolated ==
    \/ task.param_schema = None /\ defn.params /= None /\ Len(defn.params[1]) > 0
    \/ task.param_schema /= None /\ defn.params = None

ParsingViolated ==
    /\ task.param_schema /= None
    /\ defn.params /= None
    /\ Len(defn.params[1]) > 0
    /\ parse_obj(task.param_schema[1], defn.params[1]).kind = "error"

InputsViolated == Remaining /= defn.inputs

IsDefinitionError(r, text) ==
    /\ r.kind = "error"
    /\ r.type = "TaskDefinitionError"
    /\ r.msg.text = text
    /\ r.value = None

\* C1: for a pair that passes the tracker, symmetry and parsing checks,
\* validate raises TaskDefinitionError "inputs do not match" when the
\* callable's remaining parameter names differ from the declared inputs, and
\* returns a ValidatedTaskDefinition when they are equal.
C1_InputsExactMatch ==
    (result /= None /\ ~TrackerViolated /\ ~SymmetryViolated /\ ~ParsingViolated) =>
        /\ Remaining /= defn.inputs =>
               IsDefinitionError(Res, "inputs do not match the Task definition")
        /\ Remaining = defn.inputs =>
               /\ Res.kind = "ok"
               /\ Res.value[1].inputs = defn.inputs

\* a pair whose callable takes a strict subset of the declared inputs was rejected
C1_Witness ==
    /\ result /= None
    /\ ~TrackerViolated /\ ~SymmetryViolated /\ ~ParsingViolated
    /\ Remaining /= defn.inputs
    /\ Remaining \subseteq defn.inputs
    /\ Res.kind = "error"

\* C4: validate raises TaskDefinitionError, and returns nothing, whenever the
\* Task has no param_schema and the definition has non-empty params, and
\* whenever the Task has a param_schema and the definition's params is None.
C4_ParamAsymmetryFails ==
    (result /= None /\ SymmetryViolated) =>
        /\ Res.kind = "error"
        /\ Res.type = "TaskDefinitionError"
        /\ Res.value = None

\* a Task with a param_schema, a tracker parameter and matching inputs was
\* rejected because the definition has no params
C4_Witness ==
    /\ result /= None
    /\ task.param_schema /= None
    /\ defn.params = None
    /\ ~TrackerViolated
    /\ ~InputsViolated
    /\ Res.kind = "error"

C10_ParsedWheneverDeclared ==
    (result /= None /\ ~TrackerViolated /\ task.param_schema /= None /\ defn.params /= None) =>
        LET attempt == parse_obj(task.param_schema[1], defn.params[1])
        IN  /\ attempt.kind = "error" => IsDefinitionError(Res, "parameters are invalid")
            /\ Res.kind = "ok" => Res.value[1].params = attempt.value

----------------------------------------------------------------------------
(* Properties of ValidatedTaskDefinition.validate_outputs *)

Out == outResult[1]

Missing == Validated.outputs \ Keys(actual[1])

Extra == Keys(actual[1]) \ Validated.outputs

\* C2: validate_outputs returns normally exactly when the keys of the result
\* mapping are the declared outputs; otherwise it raises TaskDefinitionError.
C2_OutputsExactSet ==
    outResult /= None =>
        /\ Out.kind = "ok" <=> Keys(actual[1]) = Validated.outputs
        /\ Out.kind /= "ok" => (Out.kind = "error" /\ Out.type = "TaskDefinitionError")

\* a result with every declared output and one undeclared key was rejected
C2_Witness ==
    /\ outResult /= None
    /\ Missing = {}
    /\ Extra /= {}
    /\ Out.kind = "error"

\* C3 as stated: when declared outputs are missing and undeclared keys are
\* present, the one error raised reports both the missing and the unexpected.
C3_CombinedReport ==
    (outResult /= None /\ Missing /= {} /\ Extra /= {}) =>
        /\ Out.kind = "error"
        /\ Out.type = "TaskDefinitionError"
        /\ (Missing \cup Extra) \subseteq Out.msg.names

\* C3 amended: in that case the error raised is the missing-outputs error; it
\* lists every missing declared output and no unexpected key.
C3_MissingOnlyReport ==
    (outResult /= None /\ Missing /= {} /\ Extra /= {}) =>
        /\ Out.kind = "error"
        /\ Out.type = "TaskDefinitionError"
        /\ Out.msg.text = "Task is missing expected outputs"
        /\ Out.msg.names = Missing

\* a result lacking a declared output and holding an undeclared key was rejected
C3_Witness ==
    /\ outResult /= None
    /\ Missing /= {}
    /\ Extra /= {}
    /\ Out.kind = "error"

----------------------------------------------------------------------------
(* Properties of function-reference resolution *)

Colons == {i \in DOMAIN schema.func : schema.func[i] = ":"}

\* "<nonempty>:<nonempty>" with exactly one ':'
WellFormed ==
    /\ Cardinality(Colons) = 1
    /\ 1 \notin Colons
    /\ Len(schema.func) \notin Colons

FilePart == SubSeq(schema.func, 1, (CHOOSE i \in Colons : TRUE) - 1)

SymbolPart == SubSeq(schema.func, (CHOOSE i \in Colons : TRUE) + 1, Len(schema.func))

\* the rejection of a malformed reference: the code has no InvalidReference
\* type, it raises TaskDefinitionError("Invalid function definition: ...")
IsInvalidReference(r) == IsDefinitionError(r, "Invalid function definition")

\* C5 as stated: every func that is not "<nonempty>:<nonempty>" with exactly
\* one ':' is rejected as an invalid reference by both resolvers.
C5_RejectsAllMalformed ==
    ~WellFormed =>
        /\ fromResult /= None => IsInvalidReference(fromResult[1])
        /\ schemaResult /= None => IsInvalidReference(schemaResult[1])

\* C5 amended: every func with no ':' or with two or more ':' is rejected by
\* both resolvers with TaskDefinitionError "Invalid function definition".
C5_RejectsWrongColonCount ==
    Cardinality(Colons) /= 1 =>
        /\ fromResult /= None => IsInvalidReference(fromResult[1])
        /\ schemaResult /= None => IsInvalidReference(schemaResult[1])

\* a func with two ':' was rejected by both resolvers
C5_Witness ==
    /\ Cardinality(Colons) = 2
    /\ fromResult /= None
    /\ schemaResult /= None
    /\ fromResult[1].kind = "error"
    /\ schemaResult[1].kind = "error"

\* C6: for a well-formed reference to an existing file that exports the
\* symbol, from_unvalidated returns a ValidatedTaskSchema with that file, that
\* name and the schema's inputs, outputs and params, and _validate_schema
\* returns the callable.
C6_ResolutionSucceeds ==
    (WellFormed /\ fileExists /\ exportsSymbol) =>
        /\ fromResult /= None =>
               /\ fromResult[1].kind = "ok"
               /\ fromResult[1].value[1].file = FilePart
               /\ fromResult[1].value[1].name = SymbolPart
               /\ fromResult[1].value[1].inputs = schema.inputs
               /\ fromResult[1].value[1].outputs = schema.outputs
               /\ fromResult[1].value[1].params = schema.params
        /\ schemaResult /= None => schemaResult[1].kind = "ok"

----------------------------------------------------------------------------
(* Properties of ExperimentSchema.validate *)

NoInputs(i) == exp[i][2].inputs = {}

NoOutputs(i) == exp[i][2].outputs = {}

StrayParams(i) ==
    IF exp[i][2].params = None THEN {} ELSE Keys(exp[i][2].params[1]) \ exp[i][2].inputs

\* C7: validate returns normally exactly when every task has inputs, outputs
\* and only parameters that are inputs; otherwise it raises an error naming a
\* task that breaks the rule the error states and, for the parameter rule, a
\* parameter of that task that is not an input.
C7_AggregateValid ==
    expResult /= None =>
        LET r == expResult[1]
        IN  /\ r.kind = "ok" <=>
                   \A i \in DOMAIN exp : ~NoInputs(i) /\ ~NoOutputs(i) /\ StrayParams(i) = {}
            /\ r.kind /= "ok" =>
                   /\ r.kind = "error"
                   /\ \E i \in DOMAIN exp :
                          /\ r.msg.task = exp[i][1]
                          /\ \/ r.msg.text = "has no inputs." /\ NoInputs(i)
                             \/ r.msg.text = "has no outputs." /\ NoOutputs(i)
                             \/ /\ r.msg.text = "has a parameter that is not an input."
                                /\ r.msg.names /= {}
                                /\ r.msg.names \subseteq StrayParams(i)

\* an experiment whose first task is valid and whose second task has inputs
\* but no outputs was rejected
C7_Witness ==
    /\ expResult /= None
    /\ Len(exp) = 2
    /\ ~NoInputs(1) /\ ~NoOutputs(1) /\ StrayParams(1) = {}
    /\ ~NoInputs(2) /\ NoOutputs(2) /\ StrayParams(2) = {}
    /\ expResult[1].kind = "error"

====
